---- MODULE Spec2Model ----
(***************************************************************************)
(* ZavodHelper knowledge base: the record store (app/crud/crud.py) over    *)
(* the relational schema (app/models/models.py) on the SQLite engine that  *)
(* app/database.py creates, with the HTTP handlers of app/routers/api.py.  *)
(*                                                                         *)
(* Tables are sets of rows.  The engine is SQLite with its defaults: an    *)
(* INTEGER PRIMARY KEY gets max(id)+1 on insert, and foreign keys are not  *)
(* enforced (database.py never issues PRAGMA foreign_keys=ON), so the only *)
(* cascades are the ones the ORM performs itself on db.delete() and on     *)
(* collection replacement.                                                 *)
(***************************************************************************)
EXTENDS Integers, Sequences, FiniteSets, TLC

VARIABLES items, pages, actions, categories, locations, item_locations,
          now, exported, resp, uploads, sessions

vars == <<items, pages, actions, categories, locations, item_locations,
          now, exported, resp, uploads, sessions>>

(***************************************************************************)
(* Bounds of the model.                                                    *)
(***************************************************************************)
MaxItemId == 2
MaxPageId == 3
MaxActionId == 3
MaxCategoryId == 1
MaxLocationId == 2
MaxTime == 2
MaxUploads == 2

(***************************************************************************)
(* Values.                                                                 *)
(***************************************************************************)
NULL == 0

INCIDENT == "incident"
INSTRUCTION == "instruction"
ItemType == {INCIDENT, INSTRUCTION}

TITLE_MAX == 255

ACTION_TEXT_MAX == 1000

DEFAULT_PAGE_TITLE == "Page"

Max(S) == CHOOSE x \in S : \A y \in S : y <= x

Ids(rows) == {r.id : r \in rows}

Row(rows, id) == CHOOSE r \in rows : r.id = id

\* A variant engine that hands out the lowest id not in the table.
NextIdLowestFree(rows) == CHOOSE n \in 1..(Cardinality(rows) + 1) : n \notin Ids(rows)

\* SQLite rowid allocation for an INTEGER PRIMARY KEY without AUTOINCREMENT.
NextId(rows) == IF rows = {} THEN 1 ELSE Max(Ids(rows)) + 1

(***************************************************************************)
(* The database as one value, for the handlers that run several store      *)
(* operations in a row.                                                    *)
(***************************************************************************)
DB == [items |-> items, pages |-> pages, actions |-> actions,
       categories |-> categories, locations |-> locations,
       item_locations |-> item_locations, now |-> now]

\* Item.pages: the Page rows whose item_id is the Item's id.
ItemPages(d, id) == {p \in d.pages : p.item_id = id}

\* Page.actions: the Action rows whose page_id is the Page's id.
PageActions(d, pid) == {a \in d.actions : a.page_id = pid}

\* Item.locations: item_locations joined with locations.
ItemLocations(d, id) ==
    {l \in Ids(d.locations) : <<id, l>> \in d.item_locations}

\* Location.items: item_locations joined with items.
LocationItems(d, lid) ==
    {i \in Ids(d.items) : <<i, lid>> \in d.item_locations}

\* Category.items: the Item rows whose category_id is the Category's id.
CategoryItems(d, cid) == {it \in d.items : it.category_id = cid}

(***************************************************************************)
(* ORDER BY <key>: every sequence of the rows that is ascending in the     *)
(* key.  Rows with equal keys come in an order SQL leaves unspecified.     *)
(***************************************************************************)
\* Code points, for the BINARY collation of ORDER BY title.
Code(c) == CASE c = "%" -> 37 [] c = "A" -> 65 [] c = "B" -> 66
             [] c = "_" -> 95 [] c = "a" -> 97 [] c = "b" -> 98

RECURSIVE TitleLeq(_, _)
TitleLeq(a, b) ==
    IF a = <<>> THEN TRUE
    ELSE IF b = <<>> THEN FALSE
    ELSE IF Head(a) = Head(b) THEN TitleLeq(Tail(a), Tail(b))
    ELSE Code(Head(a)) < Code(Head(b))

\* The ascending order of two rows in a sort column.
Leq(key, r, q) ==
    CASE key = "order" -> r.order <= q.order
      [] key = "id" -> r.id <= q.id
      [] key = "title" -> TitleLeq(r.title, q.title)
      [] key = "updated_at" -> r.updated_at <= q.updated_at
      [] key = "updated_at desc" -> r.updated_at >= q.updated_at
      [] key = "order, name" -> TRUE

OrderedBy(rows, key) ==
    {s \in [1..Cardinality(rows) -> rows] :
        /\ \A i, j \in DOMAIN s : i # j => s[i] # s[j]
        /\ \A i, j \in DOMAIN s : i < j => Leq(key, s[i], s[j])}

\* The action texts of a page, in Action.order.
ActionTexts(d, pid) ==
    {[i \in DOMAIN s |-> s[i].text] : s \in OrderedBy(PageActions(d, pid), "order")}

\* The Action rows of the pages of an Item.
ActionsUnder(d, id) == {a \in d.actions : a.page_id \in Ids(ItemPages(d, id))}

\* The loaded page trees of an item: pages in Page.order, each with its
\* actions in Action.order (joinedload(Item.pages).joinedload(Page.actions)).
RECURSIVE TreesOf(_, _)
TreesOf(d, s) ==
    IF s = <<>> THEN {<<>>}
    ELSE {<<[id |-> Head(s).id, title |-> Head(s).title, actions |-> a]>> \o rest :
             a \in ActionTexts(d, Head(s).id), rest \in TreesOf(d, Tail(s))}

PageTrees(d, id) ==
    UNION {TreesOf(d, s) : s \in OrderedBy(ItemPages(d, id), "order")}

\* What a full item response carries of an Item row and its loaded relations.
ItemTree(d, it, tree) ==
    [id |-> it.id, title |-> it.title, item_type |-> it.item_type,
     category_id |-> it.category_id, location_ids |-> ItemLocations(d, it.id),
     updated_at |-> it.updated_at, pages |-> tree]

\* get_item: the full trees the query can return for an id; empty when no
\* Item has the id (first() gives None).
get_item(d, id) ==
    IF id \notin Ids(d.items) THEN {}
    ELSE {ItemTree(d, Row(d.items, id), t) : t \in PageTrees(d, id)}

(***************************************************************************)
(* Request validation (pydantic Field constraints).                        *)
(***************************************************************************)
ValidTitle(t) == Len(t) >= 1 /\ Len(t) <= TITLE_MAX

ValidPage(p) == Len(p.title) >= 1 /\ Len(p.title) <= TITLE_MAX

\* ActionBase.text; PageCreate declares its actions as list[str], so a
\* creation payload is not held to it.
ValidAction(text) == Len(text) >= 1 /\ Len(text) <= ACTION_TEXT_MAX

ValidItemCreate(p) ==
    /\ ValidTitle(p.title)
    /\ \A i \in DOMAIN p.pages : ValidPage(p.pages[i])

(***************************************************************************)
(* Insertion of a page list for an item: one Page row per entry with       *)
(* order = position, one Action row per text with order = position; ids    *)
(* are handed out by the engine in insertion order.                        *)
(***************************************************************************)
RECURSIVE SumLen(_, _)
SumLen(pl, n) == IF n = 0 THEN 0 ELSE SumLen(pl, n - 1) + Len(pl[n].actions)

NewPages(d, item_id, pl) ==
    {[id |-> NextId(d.pages) + i - 1, item_id |-> item_id,
      title |-> pl[i].title, order |-> i - 1] : i \in DOMAIN pl}

NewActions(d, pl) ==
    UNION {{[id |-> NextId(d.actions) + SumLen(pl, i - 1) + j - 1,
             page_id |-> NextId(d.pages) + i - 1,
             text |-> pl[i].actions[j],
             order |-> j - 1] : j \in DOMAIN pl[i].actions}
           : i \in DOMAIN pl}

\* A variant that appends the matching Locations to the collection.
SetLocationsMerging(d, id, ids) ==
    d.item_locations \cup {<<id, l>> : l \in ids \cap Ids(d.locations)}

\* Replacing the loaded Item.locations collection by the Locations that
\* match the submitted ids (ids of no Location match no row).
SetLocations(d, id, ids) ==
    (d.item_locations \ {<<id, l>> : l \in ItemLocations(d, id)})
        \cup {<<id, l>> : l \in ids \cap Ids(d.locations)}

(***************************************************************************)
(* create_item                                                             *)
(***************************************************************************)
\* A variant that associates every submitted id, matched or not.
create_item_unmatched(d, p) ==
    LET id == NextId(d.items)
        row == [id |-> id, title |-> p.title, item_type |-> p.item_type,
                category_id |-> p.category_id, updated_at |-> d.now + 1]
    IN  [d EXCEPT !.items = @ \cup {row},
                  !.item_locations = @ \cup {<<id, l>> : l \in p.location_ids},
                  !.pages = @ \cup NewPages(d, id, p.pages),
                  !.actions = @ \cup NewActions(d, p.pages),
                  !.now = @ + 1]

create_item(d, p) ==
    LET id == NextId(d.items)
        row == [id |-> id, title |-> p.title, item_type |-> p.item_type,
                category_id |-> p.category_id, updated_at |-> d.now + 1]
    IN  [d EXCEPT !.items = @ \cup {row},
                  !.item_locations =
                      IF p.location_ids # {} THEN SetLocations(d, id, p.location_ids)
                      ELSE @,
                  !.pages = @ \cup NewPages(d, id, p.pages),
                  !.actions = @ \cup NewActions(d, p.pages),
                  !.now = @ + 1]

(***************************************************************************)
(* update_item.  An ItemUpdate payload is the set of fields the request    *)
(* carried (model_fields_set), the ones among them it carried as null, and *)
(* the values of the others; a field reads None when it was left out or    *)
(* sent as null.                                                           *)
(***************************************************************************)
IsNone(p, f) == f \notin p.fields_set \/ f \in p.nulls

\* A variant without the delete-orphan cascade on Page.actions.
ClearPagesKeepActions(d, id) ==
    [d EXCEPT !.pages = @ \ ItemPages(d, id)]

\* Discarding the loaded Item.pages collection: the ORM deletes the Page
\* rows and, by the delete-orphan cascade, their Action rows.
ClearPages(d, id) ==
    [d EXCEPT !.pages = @ \ ItemPages(d, id),
              !.actions = {a \in @ : a.page_id \notin Ids(ItemPages(d, id))}]

ReplacePages(d, id, pl) ==
    LET c == ClearPages(d, id)
    IN  [c EXCEPT !.pages = @ \cup NewPages(c, id, pl),
                  !.actions = @ \cup NewActions(c, pl)]

\* A variant that assigns every column from the payload, present or not.
UpdatedRowAllFields(it, p) ==
    [it EXCEPT !.title = p.title, !.item_type = p.item_type,
               !.category_id = p.category_id]

\* The Item row after the column assignments of the payload.
UpdatedRow(it, p) ==
    [it EXCEPT !.title = IF IsNone(p, "title") THEN @ ELSE p.title,
               !.item_type = IF IsNone(p, "item_type") THEN @ ELSE p.item_type,
               !.category_id = IF "category_id" \in p.fields_set
                               THEN (IF "category_id" \in p.nulls THEN NULL
                                     ELSE p.category_id)
                               ELSE @]

\* The UPDATE of an items row sets updated_at (onupdate=datetime.utcnow);
\* the ORM issues it only when a column of the row changed.
Touch(d, old, new) ==
    IF new = old THEN d
    ELSE [d EXCEPT !.items = (@ \ {old}) \cup {[new EXCEPT !.updated_at = d.now + 1]},
                   !.now = @ + 1]

update_item(d, id, p) ==
    LET old == Row(d.items, id)
        d1 == Touch(d, old, UpdatedRow(old, p))
        d2 == IF IsNone(p, "location_ids") THEN d1
              ELSE [d1 EXCEPT !.item_locations = SetLocations(d1, id, p.location_ids)]
    IN  IF IsNone(p, "pages") THEN d2 ELSE ReplacePages(d2, id, p.pages)

(***************************************************************************)
(* delete_item: db.delete(item) removes the row, the loaded pages and      *)
(* their actions (cascade="all, delete-orphan") and the rows of the loaded *)
(* Item.locations collection in item_locations.                            *)
(***************************************************************************)
\* A variant that deletes the Item row only, as a query-level delete does.
delete_item_row_only(d, id) ==
    [d EXCEPT !.items = {it \in @ : it.id # id}]

delete_item(d, id) ==
    LET c == ClearPages(d, id)
    IN  [c EXCEPT !.items = {it \in @ : it.id # id},
                  !.item_locations = @ \ {<<id, l>> : l \in ItemLocations(d, id)}]

(***************************************************************************)
(* clear_all_data: db.query(Item).delete() is one DELETE FROM items; the   *)
(* ORM cascades do not run for a query-level delete and the engine does    *)
(* not enforce the ON DELETE clauses.                                      *)
(***************************************************************************)
\* A variant whose DELETE is filtered to the incidents.
clear_all_data_incidents(d) ==
    [d EXCEPT !.items = {it \in @ : it.item_type # INCIDENT}]

clear_all_data(d) == [d EXCEPT !.items = {}]

(***************************************************************************)
(* Categories and locations.                                               *)
(***************************************************************************)
create_category(d, item_type) ==
    [d EXCEPT !.categories = @ \cup {[id |-> NextId(d.categories),
                                      item_type |-> item_type]}]

\* db.delete(category): the ORM sets category_id of the loaded
\* Category.items to NULL (an UPDATE of each of those rows) and deletes the
\* Category row.
RECURSIVE Detach(_, _)
Detach(d, its) ==
    IF its = {} THEN d
    ELSE LET it == CHOOSE x \in its : \A y \in its : x.id <= y.id
         IN  Detach([d EXCEPT !.items = (@ \ {it}) \cup
                                 {[it EXCEPT !.category_id = NULL,
                                             !.updated_at = d.now + 1]}],
                    its \ {it})

\* A variant in which the Items of the Category are deleted with it.
delete_category_cascading(d, cid) ==
    [d EXCEPT !.categories = {c \in @ : c.id # cid},
              !.items = @ \ CategoryItems(d, cid)]

delete_category(d, cid) ==
    LET refs == CategoryItems(d, cid)
        d1 == Detach(d, refs)
    IN  [d1 EXCEPT !.categories = {c \in @ : c.id # cid},
                   !.now = IF refs = {} THEN @ ELSE @ + 1]

create_location(d) ==
    [d EXCEPT !.locations = @ \cup {[id |-> NextId(d.locations)]}]

\* A variant that deletes the Location row only.
delete_location_keep_rows(d, lid) ==
    [d EXCEPT !.locations = {l \in @ : l.id # lid}]

\* db.delete(location): the ORM deletes the item_locations rows of the
\* loaded Location.items collection and the Location row.
delete_location(d, lid) ==
    [d EXCEPT !.locations = {l \in @ : l.id # lid},
              !.item_locations = @ \ {<<i, lid>> : i \in LocationItems(d, lid)}]

(***************************************************************************)
(* search_items.  Titles are sequences of characters.  The filter is       *)
(* Item.title.ilike('%' + query + '%'): lower(title) LIKE lower(pattern),  *)
(* where % matches any run of characters and _ any one character; the     *)
(* query is put into the pattern as it is.                                 *)
(***************************************************************************)
Lower(c) ==
    CASE c = "A" -> "a" [] c = "B" -> "b" [] c = "G" -> "g" [] c = "J" -> "j"
      [] c = "P" -> "p" [] OTHER -> c

RECURSIVE Like(_, _)
Like(pat, txt) ==
    IF pat = <<>> THEN txt = <<>>
    ELSE IF Head(pat) = "%"
         THEN Like(Tail(pat), txt) \/ (txt # <<>> /\ Like(pat, Tail(txt)))
         ELSE /\ txt # <<>>
              /\ Head(pat) = "_" \/ Lower(Head(pat)) = Lower(Head(txt))
              /\ Like(Tail(pat), Tail(txt))

\* The optional filters shared by the listings: a filter that is None
\* (NULL here, and the empty string for the type) is not applied.
NO_TYPE == ""

Filtered(d, rows, item_type, category_id, location_id) ==
    {it \in rows :
        /\ item_type = NO_TYPE \/ it.item_type = item_type
        /\ category_id = NULL \/ it.category_id = category_id
        /\ location_id = NULL \/ location_id \in ItemLocations(d, it.id)}

\* Substring containment without case: what the pattern match gives when
\* the query holds no pattern character.
ilike_escaped(title, query) ==
    \E k \in 0..(Len(title) - Len(query)) :
        \A i \in 1..Len(query) : Lower(title[k + i]) = Lower(query[i])

ilike(title, query) == Like(<<"%">> \o query \o <<"%">>, title)

search_items(d, query, item_type, category_id, location_id) ==
    OrderedBy(Filtered(d, {it \in d.items : ilike(it.title, query)},
                       item_type, category_id, location_id),
              "title")

(***************************************************************************)
(* get_items_by_type and export_all_items.                                 *)
(***************************************************************************)
\* OFFSET skip LIMIT limit of a sequence.
Slice(s, skip, limit) ==
    LET last == IF skip + limit < Len(s) THEN skip + limit ELSE Len(s)
    IN  [i \in 1..(last - skip) |-> s[skip + i]]

\* A variant that lists the oldest update first.
get_items_oldest_first(d, skip, limit, item_type, category_id, location_id) ==
    {Slice(s, skip, limit) :
        s \in OrderedBy(Filtered(d, d.items, item_type, category_id, location_id),
                        "updated_at")}

\* get_items: the pages the query can return.
get_items(d, skip, limit, item_type, category_id, location_id) ==
    {Slice(s, skip, limit) :
        s \in OrderedBy(Filtered(d, d.items, item_type, category_id, location_id),
                        "updated_at desc")}

\* The rows in ORDER BY id: ids are unique, so the sequence is.
SeqById(rows) == CHOOSE s \in OrderedBy(rows, "id") : TRUE

\* A variant without the filter on the type.
get_items_by_type_any(d, item_type, category_id, location_id) ==
    SeqById(Filtered(d, d.items, NO_TYPE, category_id, location_id))

get_items_by_type(d, item_type, category_id, location_id) ==
    SeqById(Filtered(d, {it \in d.items : it.item_type = item_type},
                     NO_TYPE, category_id, location_id))

\* item_to_dict for one loaded tree.
item_to_dict(d, it, tree) ==
    [id |-> it.id, title |-> it.title, category_id |-> it.category_id,
     location_ids |-> ItemLocations(d, it.id),
     pages |-> [i \in DOMAIN tree |->
                   [title |-> tree[i].title, actions |-> tree[i].actions]]]

\* The dicts of a listing, each from one of the trees its Item can load.
RECURSIVE ItemDicts(_, _)
ItemDicts(d, rs) ==
    IF rs = <<>> THEN {<<>>}
    ELSE {<<item_to_dict(d, Head(rs), t)>> \o rest :
             t \in PageTrees(d, Head(rs).id), rest \in ItemDicts(d, Tail(rs))}

export_all_items(d) ==
    {[incidents |-> a, instructions |-> b] :
        a \in ItemDicts(d, get_items_by_type(d, INCIDENT, NULL, NULL)),
        b \in ItemDicts(d, get_items_by_type(d, INSTRUCTION, NULL, NULL))}

(***************************************************************************)
(* bulk_import_items.  A snapshot entry is parsed as ImportItem (id,       *)
(* title, pages as plain dicts; other keys are dropped); each entry        *)
(* becomes an ItemCreate of the list's type and goes through create_item,  *)
(* which commits.  An entry that fails validation raises, and the handler  *)
(* stops there.                                                            *)
(***************************************************************************)
ImportItem(e) == [id |-> e.id, title |-> e.title, pages |-> e.pages]

ImportData(snap) ==
    [incidents |-> [i \in DOMAIN snap.incidents |-> ImportItem(snap.incidents[i])],
     instructions |-> [i \in DOMAIN snap.instructions |->
                          ImportItem(snap.instructions[i])]]

Get(dict, key, default) == IF key \in DOMAIN dict THEN dict[key] ELSE default

ImportCreate(e, item_type) ==
    [title |-> e.title, item_type |-> item_type, category_id |-> NULL,
     location_ids |-> {},
     pages |-> [i \in DOMAIN e.pages |->
                   [title |-> Get(e.pages[i], "title", DEFAULT_PAGE_TITLE),
                    actions |-> Get(e.pages[i], "actions", <<>>)]]]

\* The creation payloads of a snapshot in the order the handler builds them.
\* A variant that imports both lists as incidents.
ImportCreatesAllIncidents(data) ==
    [i \in DOMAIN data.incidents |-> ImportCreate(data.incidents[i], INCIDENT)]
        \o [i \in DOMAIN data.instructions |->
               ImportCreate(data.instructions[i], INCIDENT)]

ImportCreates(data) ==
    [i \in DOMAIN data.incidents |-> ImportCreate(data.incidents[i], INCIDENT)]
        \o [i \in DOMAIN data.instructions |->
               ImportCreate(data.instructions[i], INSTRUCTION)]

\* The database after the handler ran over cs from position k, and whether
\* it ran to the end.
\* A variant that skips an entry that fails validation and goes on.
RECURSIVE ImportFromSkipping(_, _, _)
ImportFromSkipping(d, cs, k) ==
    IF k > Len(cs) THEN [db |-> d, done |-> FALSE, created |-> k - 1]
    ELSE IF ~ValidItemCreate(cs[k]) THEN ImportFromSkipping(d, cs, k + 1)
    ELSE ImportFromSkipping(create_item(d, cs[k]), cs, k + 1)

RECURSIVE ImportFrom(_, _, _)
ImportFrom(d, cs, k) ==
    IF k > Len(cs) THEN [db |-> d, done |-> TRUE, created |-> k - 1]
    ELSE IF ~ValidItemCreate(cs[k]) THEN [db |-> d, done |-> FALSE, created |-> k - 1]
    ELSE ImportFrom(create_item(d, cs[k]), cs, k + 1)

\* The counters the handler returns: one per list, incremented after each
\* create_item.
Imported(data, created) ==
    IF created <= Len(data.incidents) THEN <<created, 0>>
    ELSE <<Len(data.incidents), created - Len(data.incidents)>>

\* A variant that first deletes the Items whose ids the snapshot carries.
bulk_import_items_upsert(d, data) ==
    LET carried == {data.incidents[i].id : i \in DOMAIN data.incidents}
                       \cup {data.instructions[i].id : i \in DOMAIN data.instructions}
        r == ImportFrom([d EXCEPT !.items = {it \in @ : it.id \notin carried}],
                        ImportCreates(data), 1)
    IN  [db |-> r.db, done |-> r.done, imported |-> Imported(data, r.created)]

bulk_import_items(d, data) ==
    LET r == ImportFrom(d, ImportCreates(data), 1)
    IN  [db |-> r.db, done |-> r.done, imported |-> Imported(data, r.created)]

(***************************************************************************)
(* Requests.                                                               *)
(***************************************************************************)
Titles == {<<"A", "b">>, <<"B">>}

Queries == {<<"a">>, <<"b">>, <<"_">>, <<"%">>}

PageLists ==
    {<<>>,
     <<[title |-> "P", actions |-> <<"x", "y">>]>>,
     <<[title |-> "Q", actions |-> <<"y">>], [title |-> "P", actions |-> <<>>]>>}

CategoryIds == 1..MaxCategoryId

LocationIds == 1..MaxLocationId

ItemIds == 1..MaxItemId

\* location_ids of ItemCreate / ItemUpdate.
LocationIdLists == SUBSET LocationIds

Fields == {"title", "item_type", "category_id", "location_ids", "pages"}

\* The ItemUpdate of an empty request body: every field reads None.
NoFields ==
    [fields_set |-> {}, nulls |-> {}, title |-> <<>>, item_type |-> NO_TYPE,
     category_id |-> NULL, location_ids |-> {}, pages |-> <<>>]

\* p with field f sent as value v, and with field f sent as null.
With(p, f, v) == [p EXCEPT ![f] = v, !.fields_set = @ \cup {f}]

WithNull(p, f) == [p EXCEPT !.fields_set = @ \cup {f}, !.nulls = @ \cup {f}]

\* Hand-written import bodies: an entry with every key, one whose page
\* leaves title and actions out, one whose title is empty.
ImportBodies ==
    {[incidents |-> <<[id |-> 1, title |-> <<"B">>,
                       pages |-> <<[title |-> "Q", actions |-> <<"y", "x">>]>>]>>,
      instructions |-> <<[id |-> 2, title |-> <<"A", "b">>, pages |-> <<[time |-> "1m"]>>]>>],
     [incidents |-> <<[id |-> 1, title |-> <<"A", "b">>, pages |-> <<>>]>>,
      instructions |-> <<[id |-> 1, title |-> <<>>, pages |-> <<>>]>>]}

\* What the model keeps of the last exchange: the operation, the HTTP
\* status, the id the request named or the handler assigned (NULL when it
\* has none), for an update the payload fields that did not read None, and
\* for a search the query parameters and the rows of the response body.
Response(op, status, id, applied) ==
    [op |-> op, status |-> status, id |-> id, applied |-> applied,
     query |-> <<>>, body |-> <<>>]

Applied(p) == {f \in Fields : ~IsNone(p, f)}

NoExport == [stage |-> "none"]

\* The titles of a type, with how many Items carry each.
TitleBag(its, item_type) ==
    LET of == {it \in its : it.item_type = item_type}
    IN  [t \in {it.title : it \in of} |-> Cardinality({it \in of : it.title = t})]

WithinBounds(d) ==
    /\ Ids(d.items) \subseteq 1..MaxItemId
    /\ Ids(d.pages) \subseteq 1..MaxPageId
    /\ Ids(d.actions) \subseteq 1..MaxActionId
    /\ Ids(d.categories) \subseteq 1..MaxCategoryId
    /\ Ids(d.locations) \subseteq 1..MaxLocationId
    /\ d.now <= MaxTime

\* The tables after a COMMIT.
Store(d) ==
    /\ items' = d.items
    /\ pages' = d.pages
    /\ actions' = d.actions
    /\ categories' = d.categories
    /\ locations' = d.locations
    /\ item_locations' = d.item_locations
    /\ now' = d.now

\* The commit of a handler that runs alone: the uploads directory and the
\* sessions of the other workers are not touched.
Commit(d) ==
    /\ Store(d)
    /\ UNCHANGED <<uploads, sessions>>

\* The workers of the thread pool that run the handlers, each with the
\* Session get_db gives it.
Workers == {"w1", "w2"}

\* The empty database that create_all leaves, with the clock at t.
InitAt(t) ==
    /\ items = {}
    /\ pages = {}
    /\ actions = {}
    /\ categories = {}
    /\ locations = {}
    /\ item_locations = {}
    /\ now = t
    /\ exported = NoExport
    /\ resp = Response("start", 200, NULL, {})
    /\ uploads = {}
    /\ sessions = [w \in Workers |-> [pc |-> "idle"]]

Init == InitAt(0)

(***************************************************************************)
(* app/routers/upload.py.  A file name is a sequence of characters, an     *)
(* image is what Image.open decodes the content to: its width and height,  *)
(* or NO_IMAGE when the content is no image.  A written file gets a fresh  *)
(* name (uuid4), modelled as the next id of the directory.                 *)
(***************************************************************************)
MAX_UPLOAD_SIZE == 5 * 1024 * 1024

ALLOWED_EXTENSIONS ==
    {<<"p", "n", "g">>, <<"j", "p", "g">>, <<"j", "p", "e", "g">>,
     <<"g", "i", "f">>, <<"w", "e", "b", "p">>}

MAX_WIDTH == 800

MAX_HEIGHT == 600

NO_IMAGE == [width |-> 0, height |-> 0]

Abs(n) == IF n < 0 THEN -n ELSE n

\* filename.rsplit('.', 1)[-1].lower(): the text after the last dot, the
\* whole name when it has no dot.
Extension(filename) ==
    LET dot == Max({0} \cup {i \in DOMAIN filename : filename[i] = "."})
    IN  [i \in 1..(Len(filename) - dot) |-> Lower(filename[dot + i])]

\* round_aspect(y * aspect, key=|aspect - n / y|) of Image.thumbnail, for
\* an image w x h: floor or ceiling of y * w / h, the one whose ratio to y
\* is nearer the aspect (the floor on a tie), and at least 1.
RoundWidth(w, h, y) ==
    LET lo == (y * w) \div h
        hi == IF (y * w) % h = 0 THEN lo ELSE lo + 1
        n == IF Abs(w * y - lo * h) <= Abs(w * y - hi * h) THEN lo ELSE hi
    IN  IF n < 1 THEN 1 ELSE n

\* round_aspect(x / aspect, key=0 if n == 0 else |aspect - x / n|).
RoundHeight(w, h, x) ==
    LET lo == (x * h) \div w
        hi == IF (x * h) % w = 0 THEN lo ELSE lo + 1
        n == IF lo = 0 \/ Abs(w * lo - x * h) * hi <= Abs(w * hi - x * h) * lo
             THEN lo ELSE hi
    IN  IF n < 1 THEN 1 ELSE n

\* A variant that fits the width only.
thumbnail_fit_width(img) ==
    IF MAX_WIDTH >= img.width THEN img
    ELSE [width |-> MAX_WIDTH, height |-> RoundHeight(img.width, img.height, MAX_WIDTH)]

\* img.thumbnail((MAX_WIDTH, MAX_HEIGHT)): the size the image is resized to.
thumbnail(img) ==
    IF MAX_WIDTH >= img.width /\ MAX_HEIGHT >= img.height THEN img
    ELSE IF MAX_WIDTH * img.height >= MAX_HEIGHT * img.width
         THEN [width |-> RoundWidth(img.width, img.height, MAX_HEIGHT),
               height |-> MAX_HEIGHT]
         ELSE [width |-> MAX_WIDTH,
               height |-> RoundHeight(img.width, img.height, MAX_WIDTH)]

\* process_image: the dimensions of the WebP it returns for a decoded image.
process_image(img) ==
    IF img.width > MAX_WIDTH \/ img.height > MAX_HEIGHT THEN thumbnail(img) ELSE img

\* What a response to an upload tells: whether process_image was called,
\* and the dimensions of the file written.
Upload(status, filename, size, img, processed, out) ==
    [Response("upload", status, NULL, {})
        EXCEPT !.query = [filename |-> filename, size |-> size, image |-> img],
               !.body = [processed |-> processed, image |-> out]]

\* POST /upload
upload_image(filename, size, img) ==
    /\ IF filename # <<>> /\ Extension(filename) \notin ALLOWED_EXTENSIONS
       THEN /\ resp' = Upload(400, filename, size, img, FALSE, NO_IMAGE)
            /\ uploads' = uploads
       ELSE IF size > MAX_UPLOAD_SIZE
       THEN /\ resp' = Upload(400, filename, size, img, FALSE, NO_IMAGE)
            /\ uploads' = uploads
       ELSE IF img = NO_IMAGE
       THEN /\ resp' = Upload(400, filename, size, img, TRUE, NO_IMAGE)
            /\ uploads' = uploads
       ELSE /\ Cardinality(uploads) < MaxUploads
            /\ resp' = Upload(200, filename, size, img, TRUE, process_image(img))
            /\ uploads' = uploads \cup {[id |-> NextId(uploads)]}
    /\ UNCHANGED <<items, pages, actions, categories, locations,
                   item_locations, now, exported, sessions>>

\* POST /items
create_new_item(p) ==
    IF ~ValidItemCreate(p)
    THEN /\ resp' = Response("create_item", 422, NULL, {})
         /\ UNCHANGED <<items, pages, actions, categories, locations,
                        item_locations, now, exported, uploads, sessions>>
    ELSE LET d == create_item(DB, p)
         IN  /\ WithinBounds(d)
             /\ Commit(d)
             /\ exported' = NoExport
             /\ resp' = Response("create_item", 201, NextId(items), {})

(***************************************************************************)
(* update_item as a worker of the pool runs it, statement by statement.    *)
(* The SELECT is not in a transaction (pysqlite issues BEGIN before the    *)
(* first INSERT/UPDATE/DELETE only); the first flush begins one and takes  *)
(* the write lock of the database file, which one connection holds at a    *)
(* time; the other connections read the committed tables until COMMIT.     *)
(***************************************************************************)
LockHeld == \E w \in Workers : sessions[w].pc = "flushed"

\* What the SELECT of update_item loads into the Session, with the
\* Locations the payload's ids match.
Loaded(id, p, tree) ==
    [pc |-> "loaded", id |-> id, p |-> p, row |-> Row(items, id),
     page_ids |-> Ids(ItemPages(DB, id)),
     action_ids |-> Ids(ActionsUnder(DB, id)),
     location_ids |-> ItemLocations(DB, id),
     matched |-> p.location_ids \cap Ids(locations),
     tree |-> tree]

\* The flush fails: the UPDATE of the items row or the DELETE of an
\* association row matches no row (StaleDataError), or an association row
\* to insert is there already (IntegrityError).
Conflicts(d, s) ==
    \/ UpdatedRow(s.row, s.p) # s.row /\ s.id \notin Ids(d.items)
    \/ /\ ~IsNone(s.p, "location_ids")
       /\ \/ \E l \in s.location_ids \ s.matched : <<s.id, l>> \notin d.item_locations
          \/ \E l \in s.matched \ s.location_ids : <<s.id, l>> \in d.item_locations

\* The first flush on tables d: the UPDATE of the columns the Session
\* changed, the association rows, and the DELETEs of the loaded pages and
\* actions by their ids.
Flushed(d, s) ==
    LET new == UpdatedRow(s.row, s.p)
        cur == Row(d.items, s.id)
        d1 == IF new = s.row THEN d
              ELSE [d EXCEPT
                      !.items = (@ \ {cur}) \cup
                          {[cur EXCEPT
                              !.title = IF new.title # s.row.title THEN new.title ELSE @,
                              !.item_type = IF new.item_type # s.row.item_type
                                            THEN new.item_type ELSE @,
                              !.category_id = IF new.category_id # s.row.category_id
                                              THEN new.category_id ELSE @,
                              !.updated_at = d.now + 1]},
                      !.now = @ + 1]
        d2 == IF IsNone(s.p, "location_ids") THEN d1
              ELSE [d1 EXCEPT !.item_locations =
                       (@ \ {<<s.id, l>> : l \in s.location_ids \ s.matched})
                           \cup {<<s.id, l>> : l \in s.matched}]
    IN  IF IsNone(s.p, "pages") THEN d2
        ELSE [d2 EXCEPT !.pages = {x \in @ : x.id \notin s.page_ids},
                        !.actions = {a \in @ : a.id \notin s.action_ids}]

\* The tables the transaction commits: the flush, then the INSERTs of the
\* submitted pages and actions.
Written(d, s) ==
    LET c == Flushed(d, s)
    IN  IF IsNone(s.p, "pages") THEN c
        ELSE [c EXCEPT !.pages = @ \cup NewPages(c, s.id, s.p.pages),
                       !.actions = @ \cup NewActions(c, s.p.pages)]

\* The tables as the connection of a worker in mid-update sees them.
DirtyView ==
    IF LockHeld
    THEN Flushed(DB, sessions[CHOOSE w \in Workers : sessions[w].pc = "flushed"])
    ELSE DB

\* PUT /items/{item_id}, the SELECT: 404 when no Item has the id.
update_begin(w, id, p) ==
    /\ sessions[w] = [pc |-> "idle"]
    /\ IF id \notin Ids(items)
       THEN /\ resp' = Response("update_item", 404, id, {})
            /\ sessions' = sessions
       ELSE /\ \E t \in PageTrees(DB, id) :
                  sessions' = [sessions EXCEPT ![w] = Loaded(id, p, t)]
            /\ resp' = resp
    /\ UNCHANGED <<items, pages, actions, categories, locations,
                   item_locations, now, exported, uploads>>

\* db_item.pages.clear(); db.flush(): the transaction begins.
update_flush(w) ==
    /\ sessions[w].pc = "loaded"
    /\ ~IsNone(sessions[w].p, "pages")
    /\ ~LockHeld
    /\ ~Conflicts(DB, sessions[w])
    /\ sessions' = [sessions EXCEPT ![w].pc = "flushed"]
    /\ UNCHANGED <<items, pages, actions, categories, locations,
                   item_locations, now, exported, uploads, resp>>

\* db.commit(), after the INSERTs of the pages; for a payload without
\* pages the only flush of the transaction is the one of the commit.
update_commit(w) ==
    /\ \/ sessions[w].pc = "flushed"
       \/ /\ sessions[w].pc = "loaded"
          /\ IsNone(sessions[w].p, "pages")
          /\ ~LockHeld
          /\ ~Conflicts(DB, sessions[w])
    /\ LET d == Written(DB, sessions[w])
       IN  /\ WithinBounds(d)
           /\ Store(d)
    /\ sessions' = [sessions EXCEPT ![w].pc = "committed"]
    /\ exported' = NoExport
    /\ UNCHANGED <<uploads, resp>>

\* return get_item(db, item_id)
update_return(w) ==
    /\ sessions[w].pc = "committed"
    /\ resp' = Response("update_item", 200, sessions[w].id, Applied(sessions[w].p))
    /\ sessions' = [sessions EXCEPT ![w] = [pc |-> "idle"]]
    /\ UNCHANGED <<items, pages, actions, categories, locations,
                   item_locations, now, exported, uploads>>

\* The flush raises: the database stayed locked for the busy timeout, or
\* the rows the Session loaded are not there any more.
update_fail(w) ==
    /\ sessions[w].pc = "loaded"
    /\ LockHeld \/ Conflicts(DB, sessions[w])
    /\ resp' = Response("update_item", 500, sessions[w].id, {})
    /\ sessions' = [sessions EXCEPT ![w] = [pc |-> "idle"]]
    /\ UNCHANGED <<items, pages, actions, categories, locations,
                   item_locations, now, exported, uploads>>

\* A variant that reads through the connection of a worker in mid-update.
read_item_uncommitted(id) ==
    /\ IF get_item(DirtyView, id) = {}
       THEN resp' = Response("get_item", 404, id, {})
       ELSE \E t \in get_item(DirtyView, id) :
               resp' = [Response("get_item", 200, id, {}) EXCEPT !.body = t]
    /\ UNCHANGED <<items, pages, actions, categories, locations,
                   item_locations, now, exported, uploads, sessions>>

\* GET /items/{item_id}
read_item(id) ==
    /\ IF get_item(DB, id) = {}
       THEN resp' = Response("get_item", 404, id, {})
       ELSE \E t \in get_item(DB, id) :
               resp' = [Response("get_item", 200, id, {}) EXCEPT !.body = t]
    /\ UNCHANGED <<items, pages, actions, categories, locations,
                   item_locations, now, exported, uploads, sessions>>

\* GET /items/search
search(query, item_type, category_id, location_id) ==
    /\ \E rows \in search_items(DB, query, item_type, category_id, location_id) :
           resp' = [Response("search_items", 200, NULL, {})
                       EXCEPT !.query = <<query, item_type, category_id, location_id>>,
                              !.body = rows]
    /\ UNCHANGED <<items, pages, actions, categories, locations,
                   item_locations, now, exported, uploads, sessions>>

\* GET /items
list_items(skip, limit, item_type, category_id, location_id) ==
    /\ IF item_type \notin ItemType \cup {NO_TYPE}
       THEN resp' = [Response("get_items", 400, NULL, {})
                        EXCEPT !.query = <<skip, limit, item_type, category_id, location_id>>]
       ELSE \E rows \in get_items(DB, skip, limit, item_type, category_id, location_id) :
               resp' = [Response("get_items", 200, NULL, {})
                           EXCEPT !.query = <<skip, limit, item_type, category_id, location_id>>,
                                  !.body = rows]
    /\ UNCHANGED <<items, pages, actions, categories, locations,
                   item_locations, now, exported, uploads, sessions>>

\* A variant that replaces the pages stored under the id before it looks
\* for the Item.
update_existing_item_unchecked(id, p) ==
    LET d == IF IsNone(p, "pages") THEN DB ELSE ReplacePages(DB, id, p.pages)
    IN  /\ WithinBounds(d)
        /\ Commit(d)
        /\ exported' = NoExport
        /\ resp' = Response("update_item", IF id \in Ids(items) THEN 200 ELSE 404, id, {})

\* PUT /items/{item_id}
update_existing_item(id, p) ==
    IF id \notin Ids(items)
    THEN /\ resp' = Response("update_item", 404, id, {})
         /\ UNCHANGED <<items, pages, actions, categories, locations,
                        item_locations, now, exported, uploads, sessions>>
    ELSE LET d == update_item(DB, id, p)
         IN  /\ WithinBounds(d)
             /\ Commit(d)
             /\ exported' = NoExport
             /\ resp' = Response("update_item", 200, id, Applied(p))

\* DELETE /items/{item_id}
delete_existing_item(id) ==
    IF id \notin Ids(items)
    THEN /\ resp' = Response("delete_item", 404, id, {})
         /\ UNCHANGED <<items, pages, actions, categories, locations,
                        item_locations, now, exported, uploads, sessions>>
    ELSE /\ Commit(delete_item(DB, id))
         /\ exported' = NoExport
         /\ resp' = Response("delete_item", 200, id, {})

\* A variant that tests the flag after the delete.
clear_all_unconfirmed(confirm) ==
    /\ Commit(clear_all_data(DB))
    /\ exported' = NoExport
    /\ resp' = Response("clear", IF confirm THEN 200 ELSE 400, NULL, {})

\* DELETE /clear
clear_all(confirm) ==
    IF ~confirm
    THEN /\ resp' = Response("clear", 400, NULL, {})
         /\ UNCHANGED <<items, pages, actions, categories, locations,
                        item_locations, now, exported, uploads, sessions>>
    ELSE /\ Commit(clear_all_data(DB))
         /\ exported' = IF exported.stage = "exported"
                        THEN [exported EXCEPT !.stage = "cleared"]
                        ELSE NoExport
         /\ resp' = Response("clear", 200, NULL, {})

\* POST /categories
create_new_category(item_type) ==
    LET d == create_category(DB, item_type)
    IN  /\ WithinBounds(d)
        /\ Commit(d)
        /\ exported' = NoExport
        /\ resp' = [Response("create_category", 201, NextId(categories), {})
                       EXCEPT !.body = <<[id |-> NextId(categories), items_count |-> 0]>>]

get_category_items_count(d, cid) == Cardinality(CategoryItems(d, cid))

\* A CategoryResponse whose items_count is counted at the response.
CategoryResponse(d, c) == [id |-> c.id, items_count |-> get_category_items_count(d, c.id)]

\* get_categories: ORDER BY order, name, two columns the rows of the model
\* leave out, so any order of the rows can be the one returned.
get_categories(d, item_type) ==
    OrderedBy({c \in d.categories : item_type = NO_TYPE \/ c.item_type = item_type},
              "order, name")

\* GET /categories
list_categories(item_type) ==
    /\ IF item_type \notin ItemType \cup {NO_TYPE}
       THEN resp' = [Response("list_categories", 400, NULL, {}) EXCEPT !.query = <<item_type>>]
       ELSE \E s \in get_categories(DB, item_type) :
               resp' = [Response("list_categories", 200, NULL, {})
                           EXCEPT !.query = <<item_type>>,
                                  !.body = [i \in DOMAIN s |-> CategoryResponse(DB, s[i])]]
    /\ UNCHANGED <<items, pages, actions, categories, locations,
                   item_locations, now, exported, uploads, sessions>>

\* PUT /categories/{category_id}: name, icon, color and order, none of them
\* a column of the model's rows.
update_existing_category(cid) ==
    /\ IF cid \notin Ids(categories)
       THEN resp' = Response("update_category", 404, cid, {})
       ELSE resp' = [Response("update_category", 200, cid, {})
                        EXCEPT !.body = <<CategoryResponse(DB, Row(categories, cid))>>]
    /\ UNCHANGED <<items, pages, actions, categories, locations,
                   item_locations, now, exported, uploads, sessions>>

\* DELETE /categories/{category_id}
delete_existing_category(cid) ==
    IF cid \notin Ids(categories)
    THEN /\ resp' = Response("delete_category", 404, cid, {})
         /\ UNCHANGED <<items, pages, actions, categories, locations,
                        item_locations, now, exported, uploads, sessions>>
    ELSE LET d == delete_category(DB, cid)
         IN  /\ WithinBounds(d)
             /\ Commit(d)
             /\ exported' = NoExport
             /\ resp' = Response("delete_category", 200, cid, {})

\* POST /locations
create_new_location ==
    LET d == create_location(DB)
    IN  /\ WithinBounds(d)
        /\ Commit(d)
        /\ exported' = NoExport
        /\ resp' = Response("create_location", 201, NextId(locations), {})

\* DELETE /locations/{location_id}
delete_existing_location(lid) ==
    IF lid \notin Ids(locations)
    THEN /\ resp' = Response("delete_location", 404, lid, {})
         /\ UNCHANGED <<items, pages, actions, categories, locations,
                        item_locations, now, exported, uploads, sessions>>
    ELSE /\ Commit(delete_location(DB, lid))
         /\ exported' = NoExport
         /\ resp' = Response("delete_location", 200, lid, {})

\* GET /incidents and GET /instructions: the dicts of get_items_by_type.
get_typed(op, item_type, category_id, location_id) ==
    /\ \E body \in ItemDicts(DB, get_items_by_type(DB, item_type, category_id, location_id)) :
           resp' = [Response(op, 200, NULL, {})
                       EXCEPT !.query = <<item_type, category_id, location_id>>,
                              !.body = body]
    /\ UNCHANGED <<items, pages, actions, categories, locations,
                   item_locations, now, exported, uploads, sessions>>

get_incidents(category_id, location_id) ==
    get_typed("get_incidents", INCIDENT, category_id, location_id)

get_instructions(category_id, location_id) ==
    get_typed("get_instructions", INSTRUCTION, category_id, location_id)

\* GET /export: the client keeps the snapshot.
export_data ==
    /\ \E snap \in export_all_items(DB) :
           exported' = [stage |-> "exported", data |-> snap,
                        incidents |-> TitleBag(items, INCIDENT),
                        instructions |-> TitleBag(items, INSTRUCTION)]
    /\ resp' = Response("export", 200, NULL, {})
    /\ UNCHANGED <<items, pages, actions, categories, locations,
                   item_locations, now, uploads, sessions>>

\* POST /import
import_data(snap) ==
    LET r == bulk_import_items(DB, ImportData(snap))
    IN  /\ WithinBounds(r.db)
        /\ Commit(r.db)
        /\ exported' = IF exported.stage = "cleared" /\ snap = exported.data
                       THEN [exported EXCEPT !.stage = "imported"]
                       ELSE NoExport
        /\ resp' = IF r.done
                   THEN [Response("import", 200, NULL, {}) EXCEPT !.body = r.imported]
                   ELSE Response("import", 500, NULL, {})

(***************************************************************************)
(* Spec: the item trees.  Items are created, updated, deleted, cleared,    *)
(* exported and imported with their pages and actions; no category or      *)
(* location exists, so the requests carry none.                            *)
(***************************************************************************)
TreeCreates ==
    [title : {<<"A", "b">>}, item_type : ItemType, category_id : {NULL},
     location_ids : {{}}, pages : PageLists]
        \cup {[title |-> <<>>, item_type |-> INCIDENT, category_id |-> NULL,
               location_ids |-> {}, pages |-> <<>>]}

TreeUpdates ==
    {NoFields, WithNull(NoFields, "pages"), With(NoFields, "title", <<"B">>)}
        \cup {With(NoFields, "pages", pl) : pl \in PageLists}
        \cup {With(With(NoFields, "title", <<"B">>), "pages", pl) : pl \in PageLists}

Next ==
    \/ \E p \in TreeCreates : create_new_item(p)
    \/ \E id \in ItemIds, p \in TreeUpdates : update_existing_item(id, p)
    \/ \E id \in ItemIds : delete_existing_item(id)
    \/ \E confirm \in BOOLEAN : clear_all(confirm)
    \/ \E snap \in ImportBodies : import_data(snap)

Spec == Init /\ [][Next]_vars

(***************************************************************************)
(* SpecCategories: Items and the Categories they reference.  The clock     *)
(* starts one tick early, so that two Items can be stamped before a        *)
(* Category is deleted.                                                    *)
(***************************************************************************)
OnePage == <<[title |-> "P", actions |-> <<"x", "y">>]>>

CatCreates ==
    [title : {<<"A", "b">>}, item_type : {INCIDENT},
     category_id : {NULL} \cup CategoryIds, location_ids : {{}},
     pages : {<<>>, OnePage}]

CatUpdates ==
    {WithNull(NoFields, "category_id")}
        \cup {With(NoFields, "category_id", c) : c \in CategoryIds}

NextCategories ==
    \/ \E t \in ItemType : create_new_category(t)
    \/ \E cid \in CategoryIds : delete_existing_category(cid)
    \/ \E p \in CatCreates : create_new_item(p)
    \/ \E id \in ItemIds, p \in CatUpdates : update_existing_item(id, p)
    \/ \E id \in ItemIds : delete_existing_item(id)
    \/ clear_all(TRUE)

SpecCategories == InitAt(-1) /\ [][NextCategories]_vars

(***************************************************************************)
(* SpecLocations: Items and the Locations they are associated to.          *)
(***************************************************************************)
LocCreates ==
    [title : {<<"A", "b">>}, item_type : {INCIDENT}, category_id : {NULL},
     location_ids : LocationIdLists,
     pages : {<<[title |-> "P", actions |-> <<"x">>]>>}]

LocUpdates == {With(NoFields, "location_ids", l) : l \in LocationIdLists}

NextLocations ==
    \/ create_new_location
    \/ \E lid \in LocationIds : delete_existing_location(lid)
    \/ \E p \in LocCreates : create_new_item(p)
    \/ \E id \in ItemIds, p \in LocUpdates : update_existing_item(id, p)
    \/ \E id \in ItemIds : delete_existing_item(id)
    \/ clear_all(TRUE)

SpecLocations == Init /\ [][NextLocations]_vars

(***************************************************************************)
(* SpecUpdate: partial updates of one Item that has a category, a location *)
(* and a page tree.                                                        *)
(***************************************************************************)
UpdCreates ==
    [title : {<<"A", "b">>}, item_type : {INCIDENT},
     category_id : {NULL} \cup CategoryIds, location_ids : {{}, {1}},
     pages : {OnePage}]

UpdUpdates ==
    {NoFields, WithNull(NoFields, "category_id"), WithNull(NoFields, "title"),
     WithNull(NoFields, "pages"),
     With(NoFields, "title", <<"B">>), With(NoFields, "item_type", INSTRUCTION),
     With(NoFields, "pages", <<[title |-> "Q", actions |-> <<"y">>]>>),
     With(NoFields, "pages", <<>>),
     With(With(NoFields, "title", <<"B">>), "location_ids", {1}),
     With(With(NoFields, "item_type", INSTRUCTION), "pages", <<>>)}
        \cup {With(NoFields, "category_id", c) : c \in CategoryIds}
        \cup {With(NoFields, "location_ids", l) : l \in {{}, {1}}}

NextUpdate ==
    \/ create_new_category(INCIDENT)
    \/ create_new_location
    \/ items = {} /\ \E p \in UpdCreates : create_new_item(p)
    \/ \E id \in ItemIds, p \in UpdUpdates : update_existing_item(id, p)

SpecUpdate == Init /\ [][NextUpdate]_vars

(***************************************************************************)
(* SpecSearch: the read operations over Items of both types, with and      *)
(* without a category and a location.                                      *)
(***************************************************************************)
SearchCreates ==
    {[title |-> <<"A", "b">>, item_type |-> INCIDENT, category_id |-> NULL,
      location_ids |-> {}, pages |-> <<>>],
     [title |-> <<"B">>, item_type |-> INSTRUCTION, category_id |-> NULL,
      location_ids |-> {1}, pages |-> <<>>],
     [title |-> <<"a", "_">>, item_type |-> INCIDENT, category_id |-> 1,
      location_ids |-> {}, pages |-> <<>>],
     [title |-> <<"A", "b">>, item_type |-> INSTRUCTION, category_id |-> 1,
      location_ids |-> {1}, pages |-> <<>>]}

Searches ==
    {<<q, NO_TYPE, NULL, NULL>> : q \in Queries}
        \cup {<<<<"b">>, INCIDENT, NULL, NULL>>, <<<<"b">>, NO_TYPE, 1, NULL>>,
              <<<<"b">>, NO_TYPE, NULL, 1>>, <<<<"_">>, INSTRUCTION, 1, 1>>}

NextSearch ==
    \/ create_new_location
    \/ \E p \in SearchCreates : create_new_item(p)
    \/ \E s \in Searches : search(s[1], s[2], s[3], s[4])
    \/ \E id \in ItemIds : read_item(id)

SpecSearch == Init /\ [][NextSearch]_vars

(***************************************************************************)
(* SpecTransfer: export, clear and import.  The client imports the         *)
(* snapshot it holds.  The clock starts two ticks early, so that two Items *)
(* can be created and imported again.                                      *)
(***************************************************************************)
TransferCreates ==
    [title : Titles, item_type : ItemType, category_id : {NULL},
     location_ids : {{}}, pages : {<<>>, <<[title |-> "P", actions |-> <<"x">>]>>}]

NextTransfer ==
    \/ \E p \in TransferCreates : create_new_item(p)
    \/ export_data
    \/ clear_all(TRUE)
    \/ exported.stage # "none" /\ import_data(exported.data)

SpecTransfer == InitAt(-2) /\ [][NextTransfer]_vars

(***************************************************************************)
(* SpecIntake: creation and import with payloads that pass validation and  *)
(* payloads that do not.                                                   *)
(***************************************************************************)
RECURSIVE Repeat(_, _)
Repeat(c, n) ==
    IF n = 0 THEN ""
    ELSE IF n % 2 = 0 THEN LET half == Repeat(c, n \div 2) IN half \o half
    ELSE c \o Repeat(c, n - 1)

LongTitle == [i \in 1..(TITLE_MAX + 1) |-> "a"]

IntakeCreate(title, item_type, pl) ==
    [title |-> title, item_type |-> item_type, category_id |-> NULL,
     location_ids |-> {}, pages |-> pl]

IntakeCreates ==
    {IntakeCreate(<<"A", "b">>, INCIDENT, <<[title |-> "P", actions |-> <<"x">>]>>),
     IntakeCreate(<<"B">>, INSTRUCTION, <<>>),
     IntakeCreate(<<>>, INCIDENT, <<[title |-> "P", actions |-> <<"x">>]>>),
     IntakeCreate(LongTitle, INCIDENT, <<[title |-> "P", actions |-> <<"x">>]>>),
     IntakeCreate(<<"B">>, INCIDENT, <<[title |-> "", actions |-> <<"x">>]>>),
     IntakeCreate(<<"B">>, INCIDENT,
                  <<[title |-> Repeat("p", TITLE_MAX + 1), actions |-> <<"x">>]>>),
     IntakeCreate(<<"A", "b">>, INSTRUCTION, <<[title |-> "Q", actions |-> <<"">>]>>),
     IntakeCreate(<<"B">>, INSTRUCTION,
                  <<[title |-> "Q", actions |-> <<Repeat("t", ACTION_TEXT_MAX + 1)>>]>>)}

\* The hand-written bodies, one entry that carries the id of a stored Item,
\* and a body whose second entry fails validation before a valid third.
IntakeBodies ==
    ImportBodies
        \cup {[incidents |-> <<>>,
               instructions |-> <<[id |-> 1, title |-> <<"B">>,
                                   pages |-> <<[title |-> "Q", actions |-> <<"y">>]>>]>>],
              [incidents |-> <<[id |-> 1, title |-> <<"B">>,
                                pages |-> <<[title |-> "Q", actions |-> <<"y">>]>>]>>,
               instructions |-> <<[id |-> 2, title |-> <<>>,
                                   pages |-> <<[title |-> "P", actions |-> <<"x">>]>>],
                                  [id |-> 3, title |-> <<"A", "b">>, pages |-> <<>>]>>]}

NextIntake ==
    \/ \E p \in IntakeCreates : create_new_item(p)
    \/ \E id \in ItemIds : delete_existing_item(id)
    \/ clear_all(TRUE)
    \/ \E snap \in IntakeBodies : import_data(snap)

SpecIntake == Init /\ [][NextIntake]_vars

(***************************************************************************)
(* SpecClear: the clear with and without its confirmation, and the item    *)
(* operations on ids that are stored and ids that are not, over Items with *)
(* a category, a location and pages.                                       *)
(***************************************************************************)
ClearCreates ==
    {[title |-> <<"A", "b">>, item_type |-> INCIDENT, category_id |-> 1,
      location_ids |-> {1}, pages |-> OnePage],
     [title |-> <<"B">>, item_type |-> INSTRUCTION, category_id |-> NULL,
      location_ids |-> {}, pages |-> <<>>]}

ClearUpdates ==
    {NoFields, With(NoFields, "title", <<"B">>), WithNull(NoFields, "category_id"),
     With(NoFields, "location_ids", {}), With(NoFields, "pages", <<>>),
     With(With(With(With(With(NoFields, "title", <<"B">>), "item_type", INCIDENT),
                    "category_id", 1), "location_ids", {1}),
          "pages", <<[title |-> "Q", actions |-> <<"y">>]>>)}

NextClear ==
    \/ create_new_category(INCIDENT)
    \/ create_new_location
    \/ \E p \in ClearCreates : create_new_item(p)
    \/ \E confirm \in BOOLEAN : clear_all(confirm)
    \/ \E id \in ItemIds : read_item(id)
    \/ \E id \in ItemIds, p \in ClearUpdates : update_existing_item(id, p)
    \/ \E id \in ItemIds : delete_existing_item(id)

SpecClear == Init /\ [][NextClear]_vars

(***************************************************************************)
(* SpecUnknownLocations: creations whose location_ids carry an id that no  *)
(* Location can have, alone or next to ids of stored Locations.            *)
(***************************************************************************)
UnknownLocationId == MaxLocationId + 1

UnknownLocCreates ==
    [title : {<<"A", "b">>}, item_type : {INCIDENT}, category_id : {NULL},
     location_ids : {l \cup {UnknownLocationId} : l \in {{}, {1}, LocationIds}},
     pages : {<<>>}]

NextUnknownLocations ==
    \/ create_new_location
    \/ \E lid \in LocationIds : delete_existing_location(lid)
    \/ \E p \in UnknownLocCreates : create_new_item(p)
    \/ \E id \in ItemIds : delete_existing_item(id)
    \/ clear_all(TRUE)

SpecUnknownLocations == Init /\ [][NextUnknownLocations]_vars

(***************************************************************************)
(* SpecList: listings with filters and windows over Items that are         *)
(* created, renamed and detached from their Category.  The clock starts a  *)
(* tick early, so that the listed Items can be reordered by an update.     *)
(***************************************************************************)
ListCreates ==
    {[title |-> <<"A", "b">>, item_type |-> INCIDENT, category_id |-> 1,
      location_ids |-> {1}, pages |-> <<>>],
     [title |-> <<"B">>, item_type |-> INSTRUCTION, category_id |-> NULL,
      location_ids |-> {}, pages |-> <<>>]}

ListUpdates == {With(NoFields, "title", <<"a", "_">>)}

Windows == {<<0, 1>>, <<0, MaxItemId>>, <<1, 1>>, <<MaxItemId, 1>>}

Listings ==
    {<<NO_TYPE, NULL, NULL>>, <<INCIDENT, NULL, NULL>>, <<NO_TYPE, 1, NULL>>,
     <<NO_TYPE, NULL, 1>>, <<"other", NULL, NULL>>}

NextList ==
    \/ create_new_category(INCIDENT)
    \/ \E cid \in CategoryIds : delete_existing_category(cid)
    \/ create_new_location
    \/ \E p \in ListCreates : create_new_item(p)
    \/ \E id \in ItemIds, p \in ListUpdates : update_existing_item(id, p)
    \/ \E w \in Windows, f \in Listings : list_items(w[1], w[2], f[1], f[2], f[3])

SpecList == InitAt(-1) /\ [][NextList]_vars

(***************************************************************************)
(* SpecTyped: the listings by type, over incidents and instructions with   *)
(* and without a category, a location and pages.                           *)
(***************************************************************************)
TypedCreates ==
    {[title |-> <<"A", "b">>, item_type |-> INCIDENT, category_id |-> 1,
      location_ids |-> {1}, pages |-> OnePage],
     [title |-> <<"B">>, item_type |-> INSTRUCTION, category_id |-> NULL,
      location_ids |-> {}, pages |-> <<>>],
     [title |-> <<"B">>, item_type |-> INCIDENT, category_id |-> NULL,
      location_ids |-> {}, pages |-> <<[title |-> "Q", actions |-> <<>>]>>]}

TypedFilters == {<<NULL, NULL>>, <<1, NULL>>, <<NULL, 1>>}

NextTyped ==
    \/ create_new_category(INCIDENT)
    \/ create_new_location
    \/ \E p \in TypedCreates : create_new_item(p)
    \/ \E id \in ItemIds : delete_existing_item(id)
    \/ \E f \in TypedFilters : get_incidents(f[1], f[2])
    \/ \E f \in TypedFilters : get_instructions(f[1], f[2])

SpecTyped == Init /\ [][NextTyped]_vars

(***************************************************************************)
(* SpecUpload: uploads with the file names, sizes and contents the checks  *)
(* of upload_image tell apart.                                             *)
(***************************************************************************)
FileNames ==
    {<<"a", ".", "p", "n", "g">>, <<"a", ".", "J", "P", "G">>,
     <<"a", ".", "p", "n", "g", ".", "e", "x", "e">>, <<"a", ".", "e", "x", "e">>,
     <<"p", "n", "g">>, <<"a">>, <<"a", ".">>, <<>>}

NextUpload ==
    \E filename \in FileNames,
       size \in {1, MAX_UPLOAD_SIZE, MAX_UPLOAD_SIZE + 1},
       img \in {NO_IMAGE, [width |-> 1, height |-> 1], [width |-> 1600, height |-> 1200]} :
        upload_image(filename, size, img)

SpecUpload == Init /\ [][NextUpload]_vars

(***************************************************************************)
(* SpecImages: accepted uploads of images of many dimensions.              *)
(***************************************************************************)
Dimensions == {1, 2, 3, 450, 599, 600, 601, 799, 800, 801, 1067, 1200, 4000, 10000}

NextImages ==
    \E img \in [width : Dimensions, height : Dimensions] : upload_image(<<"a", ".", "p", "n", "g">>, 1, img)

SpecImages == Init /\ [][NextImages]_vars

(***************************************************************************)
(* SpecRace: two workers update one Item at the same time.  SpecRead: one  *)
(* worker updates while Items are read.                                    *)
(***************************************************************************)
RaceCreates ==
    {[title |-> <<"A", "b">>, item_type |-> INCIDENT, category_id |-> NULL,
      location_ids |-> {}, pages |-> <<[title |-> "P", actions |-> <<"x">>]>>]}

RaceUpdates ==
    {With(NoFields, "pages", <<[title |-> "Q", actions |-> <<"y">>]>>),
     With(NoFields, "pages", <<[title |-> "R", actions |-> <<>>],
                               [title |-> "S", actions |-> <<"x">>]>>),
     With(NoFields, "title", <<"B">>)}

NextRace ==
    \/ \E p \in RaceCreates : items = {} /\ create_new_item(p)
    \/ \E w \in Workers, id \in ItemIds, p \in RaceUpdates : update_begin(w, id, p)
    \/ \E w \in Workers : update_flush(w)
    \/ \E w \in Workers : update_commit(w)
    \/ \E w \in Workers : update_return(w)
    \/ \E w \in Workers : update_fail(w)

SpecRace == Init /\ [][NextRace]_vars

NextRead ==
    \/ \E p \in RaceCreates : ~LockHeld /\ create_new_item(p)
    \/ \E id \in ItemIds, p \in RaceUpdates : update_begin("w1", id, p)
    \/ update_flush("w1")
    \/ update_commit("w1")
    \/ update_return("w1")
    \/ \E id \in ItemIds : read_item(id)

SpecRead == Init /\ [][NextRead]_vars

(***************************************************************************)
(* SpecCounts: the category responses with their items_count, over Items   *)
(* that are created, moved between categories, deleted and cleared.        *)
(***************************************************************************)
CountCreates ==
    [title : {<<"A", "b">>}, item_type : {INCIDENT},
     category_id : {NULL} \cup CategoryIds, location_ids : {{}}, pages : {<<>>}]

NextCounts ==
    \/ create_new_category(INCIDENT)
    \/ \E cid \in CategoryIds : delete_existing_category(cid)
    \/ \E cid \in CategoryIds : update_existing_category(cid)
    \/ \E t \in {NO_TYPE, INCIDENT, INSTRUCTION, "other"} : list_categories(t)
    \/ \E p \in CountCreates : create_new_item(p)
    \/ \E id \in ItemIds, p \in CatUpdates : update_existing_item(id, p)
    \/ \E id \in ItemIds : delete_existing_item(id)
    \/ clear_all(TRUE)

SpecCounts == InitAt(-1) /\ [][NextCounts]_vars

(***************************************************************************)
(* Properties of the item trees, checked under Spec.                       *)
(***************************************************************************)
\* A loaded page tree as a creation payload would write it.
Submitted(tree) ==
    [i \in DOMAIN tree |-> [title |-> tree[i].title, actions |-> tree[i].actions]]

\* The Action rows of a set of Page rows.
ActionsOf(acts, ps) == {a \in acts : a.page_id \in Ids(ps)}

RECURSIVE CountActions(_)
CountActions(pl) ==
    IF pl = <<>> THEN 0 ELSE Len(Head(pl).actions) + CountActions(Tail(pl))

\* C1: after create_item with any page list, get_item(id) returns the pages
\* in the submitted order and in each page the action texts in the
\* submitted order, nothing more and nothing less.
C1_CreateRoundTrip ==
    [][\A p \in TreeCreates :
          (resp'.op = "create_item" /\ resp'.status = 201 /\ create_new_item(p))
          => /\ get_item(DB', resp'.id) # {}
             /\ \A t \in get_item(DB', resp'.id) : Submitted(t.pages) = p.pages]_vars

\* C2: an update_item that carries pages leaves the Item with exactly the
\* submitted page tree: as many Page and Action rows as submitted, with the
\* submitted content in the submitted order, and every other row of the two
\* tables as it was.
C2_UpdateReplacesPages ==
    [][\A id \in ItemIds, p \in TreeUpdates :
          (/\ resp'.op = "update_item" /\ resp'.status = 200 /\ resp'.id = id
           /\ resp'.applied = Applied(p) /\ ~IsNone(p, "pages")
           /\ update_existing_item(id, p))
          => LET oldP == ItemPages(DB, id)
                 newP == ItemPages(DB', id)
             IN  /\ Cardinality(newP) = Len(p.pages)
                 /\ Cardinality(ActionsOf(actions', newP)) = CountActions(p.pages)
                 /\ pages' \ newP = pages \ oldP
                 /\ actions' \ ActionsOf(actions', newP) = actions \ ActionsOf(actions, oldP)
                 /\ PageTrees(DB', id) # {}
                 /\ \A t \in PageTrees(DB', id) : Submitted(t) = p.pages]_vars

\* C2 witness: an update replaced the pages of an Item by two pages while
\* another stored Item has pages of its own.
C2_Witness ==
    /\ resp.op = "update_item" /\ resp.status = 200 /\ "pages" \in resp.applied
    /\ Cardinality(ItemPages(DB, resp.id)) = 2
    /\ \E q \in pages : q.item_id # resp.id /\ q.item_id \in Ids(items)

\* C3 as claimed: after an update_item that replaces the pages, no page id
\* the Item had before identifies a stored Page.
C3_OldPageIdsGone ==
    [][\A id \in ItemIds, p \in TreeUpdates :
          (/\ resp'.op = "update_item" /\ resp'.status = 200 /\ resp'.id = id
           /\ resp'.applied = Applied(p) /\ ~IsNone(p, "pages")
           /\ update_existing_item(id, p))
          => Ids(ItemPages(DB, id)) \cap Ids(pages') = {}]_vars

\* C3 as amended: a page id the Item had before identifies a stored Page
\* afterwards only when the engine handed it out again, that is when it is
\* above every page id that stayed in the table; the row is then one of the
\* newly inserted pages of the same Item, at the position the id stands for.
C3_OldPageIdsOnlyReissued ==
    [][\A id \in ItemIds, p \in TreeUpdates :
          (/\ resp'.op = "update_item" /\ resp'.status = 200 /\ resp'.id = id
           /\ resp'.applied = Applied(p) /\ ~IsNone(p, "pages")
           /\ update_existing_item(id, p))
          => LET kept == pages \ ItemPages(DB, id)
                 base == IF kept = {} THEN 0 ELSE Max(Ids(kept))
             IN  \A pid \in Ids(ItemPages(DB, id)) :
                    pid \in Ids(pages')
                    => /\ pid > base
                       /\ pid - base <= Len(p.pages)
                       /\ Row(pages', pid) =
                             [id |-> pid, item_id |-> id,
                              title |-> p.pages[pid - base].title,
                              order |-> pid - base - 1]]_vars

\* C3 witness: an update replaced the pages of an Item whose pages have
\* ids above a page of another owner.
C3_Witness ==
    /\ resp.op = "update_item" /\ resp.status = 200 /\ "pages" \in resp.applied
    /\ ItemPages(DB, resp.id) # {}
    /\ \E q \in pages : q.item_id # resp.id
                        /\ \A r \in ItemPages(DB, resp.id) : q.id < r.id

\* C4: delete_item on an existing Item removes the Item row, its Page rows
\* and their Action rows, answers true, get_item then finds nothing, and
\* every other Item keeps its row and its page tree.
C4_DeleteItemCascades ==
    [][\A id \in ItemIds :
          (resp'.op = "delete_item" /\ resp'.id = id /\ id \in Ids(items)
           /\ delete_existing_item(id))
          => /\ resp'.status = 200
             /\ items' = {it \in items : it.id # id}
             /\ ItemPages(DB', id) = {}
             /\ ActionsOf(actions', ItemPages(DB, id)) = {}
             /\ get_item(DB', id) = {}
             /\ \A other \in Ids(items') : get_item(DB', other) = get_item(DB, other)]_vars

\* C4 witness: an Item was deleted and another Item with pages and actions
\* is stored.
C4_Witness ==
    /\ resp.op = "delete_item" /\ resp.status = 200
    /\ resp.id \notin Ids(items)
    /\ \E it \in items : ItemPages(DB, it.id) # {} /\ ActionsOf(actions, ItemPages(DB, it.id)) # {}

\* C5: no orphan rows: every Page belongs to a stored Item and every Action
\* to a stored Page.
C5_NoOrphans ==
    /\ \A p \in pages : p.item_id \in Ids(items)
    /\ \A a \in actions : a.page_id \in Ids(pages)

(***************************************************************************)
(* Properties of the Category references, checked under SpecCategories.    *)
(***************************************************************************)
\* C6 as claimed: delete_category on an existing Category keeps the set of
\* Item ids, leaves every Item that referenced it with category_id null,
\* and changes no other field (updated_at among them) and no page tree.
C6_DeleteCategoryChangesOnlyCategoryId ==
    [][\A cid \in CategoryIds :
          (resp'.op = "delete_category" /\ resp'.id = cid /\ cid \in Ids(categories)
           /\ delete_existing_category(cid))
          => /\ Ids(items') = Ids(items)
             /\ \A it \in items :
                    /\ Row(items', it.id) =
                          [it EXCEPT !.category_id = IF @ = cid THEN NULL ELSE @]
                    /\ PageTrees(DB', it.id) = PageTrees(DB, it.id)]_vars

\* C6 as amended: delete_category on an existing Category keeps the set of
\* Item ids; an Item that referenced it has category_id null and a newer
\* updated_at afterwards and is otherwise the same row; every other Item row
\* is unchanged; no Page, Action or association row changes.
C6_DeleteCategoryDetaches ==
    [][\A cid \in CategoryIds :
          (resp'.op = "delete_category" /\ resp'.id = cid /\ cid \in Ids(categories)
           /\ delete_existing_category(cid))
          => /\ resp'.status = 200
             /\ cid \notin Ids(categories')
             /\ Ids(items') = Ids(items)
             /\ \A it \in items :
                    LET new == Row(items', it.id)
                    IN  /\ new.title = it.title
                        /\ new.item_type = it.item_type
                        /\ it.category_id = cid
                              => new.category_id = NULL /\ new.updated_at > it.updated_at
                        /\ it.category_id # cid => new = it
                        /\ PageTrees(DB', it.id) = PageTrees(DB, it.id)
             /\ pages' = pages
             /\ actions' = actions
             /\ item_locations' = item_locations]_vars

\* C6 witness: a Category was deleted; an Item with pages was detached by
\* it and another Item was stamped earlier.
C6_Witness ==
    /\ resp.op = "delete_category" /\ resp.status = 200
    /\ \E a, b \in items :
          /\ a.category_id = NULL /\ a.updated_at = now
          /\ b.updated_at < now
          /\ ItemPages(DB, a.id) # {}

(***************************************************************************)
(* Properties of the Location associations, checked under SpecLocations.   *)
(***************************************************************************)
\* C7: delete_location on an existing Location changes no Item row, no Page
\* and no Action; afterwards no Item is associated to the Location, by a row
\* of item_locations or in its loaded location set, and the associations of
\* every Item to the other Locations are as before.
C7_DeleteLocationDetaches ==
    [][\A lid \in LocationIds :
          (resp'.op = "delete_location" /\ resp'.id = lid /\ lid \in Ids(locations)
           /\ delete_existing_location(lid))
          => /\ resp'.status = 200
             /\ items' = items
             /\ pages' = pages
             /\ actions' = actions
             /\ \A it \in items :
                    /\ <<it.id, lid>> \notin item_locations'
                    /\ ItemLocations(DB', it.id) = ItemLocations(DB, it.id) \ {lid}
                    /\ \A l \in LocationIds \ {lid} :
                           (<<it.id, l>> \in item_locations')
                               = (<<it.id, l>> \in item_locations)]_vars

\* C7 witness: a Location was deleted; one stored Item with pages is still
\* associated to a Location and another Item to none.
C7_Witness ==
    /\ resp.op = "delete_location" /\ resp.status = 200
    /\ \E a, b \in items :
          /\ ItemLocations(DB, a.id) # {}
          /\ ItemLocations(DB, b.id) = {}
          /\ ItemPages(DB, a.id) # {}

(***************************************************************************)
(* Properties of the partial update, checked under SpecUpdate.             *)
(***************************************************************************)
\* The ids of the Locations an Item has a row for.
LocationRows(assoc, id) == {r[2] : r \in {x \in assoc : x[1] = id}}

\* C8: a successful update_item leaves every field the payload omits as it
\* was: title, item_type and category_id of the row, the Item's rows of
\* item_locations, and the Page and Action rows of the Item with their ids
\* and orders; an update that carries only a title stores that title.
C8_UpdateOnlyPresentFields ==
    [][\A id \in ItemIds, p \in UpdUpdates :
          (/\ resp'.op = "update_item" /\ resp'.status = 200 /\ resp'.id = id
           /\ resp'.applied = Applied(p)
           /\ update_existing_item(id, p))
          => LET old == Row(items, id)
                 new == Row(items', id)
             IN  /\ "title" \notin p.fields_set => new.title = old.title
                 /\ "item_type" \notin p.fields_set => new.item_type = old.item_type
                 /\ "category_id" \notin p.fields_set => new.category_id = old.category_id
                 /\ "location_ids" \notin p.fields_set
                       => LocationRows(item_locations', id) = LocationRows(item_locations, id)
                 /\ "pages" \notin p.fields_set
                       => /\ ItemPages(DB', id) = ItemPages(DB, id)
                          /\ ActionsOf(actions', ItemPages(DB', id))
                                = ActionsOf(actions, ItemPages(DB, id))
                          /\ PageTrees(DB', id) = PageTrees(DB, id)
                 /\ p.fields_set = {"title"} /\ p.nulls = {} => new.title = p.title]_vars

\* C8 witness: an update that carried only a title acted on an Item that
\* has a category, a location and a page with two actions.
C8_Witness ==
    /\ resp.op = "update_item" /\ resp.status = 200 /\ resp.applied = {"title"}
    /\ \E it \in items :
          /\ it.id = resp.id
          /\ it.title = <<"B">>
          /\ it.category_id # NULL
          /\ ItemLocations(DB, it.id) # {}
          /\ Cardinality(ActionsOf(actions, ItemPages(DB, it.id))) = 2

(***************************************************************************)
(* Properties of the search, checked under SpecSearch.                     *)
(***************************************************************************)
\* C9: the body of a search response is the Items whose title contains the
\* query text as a substring, compared without case, and that pass every
\* supplied filter, no other Item, ascending by title.
C9_SearchIsSubstringMatch ==
    resp.op = "search_items"
    => resp.body \in OrderedBy(Filtered(DB, {it \in items : ilike_escaped(it.title, resp.query[1])},
                                        resp.query[2], resp.query[3], resp.query[4]),
                               "title")

(***************************************************************************)
(* Properties of export and import, checked under SpecTransfer.            *)
(***************************************************************************)
\* C10: when a snapshot was exported, the store cleared and the snapshot
\* imported, the import succeeded and the store holds, for each type, the
\* titles it held at the export, each as many times.
C10_ExportClearImport ==
    exported.stage = "imported"
    => /\ resp.op = "import" /\ resp.status = 200
       /\ TitleBag(items, INCIDENT) = exported.incidents
       /\ TitleBag(items, INSTRUCTION) = exported.instructions

\* C10 witness: a snapshot with an incident and an instruction, one of
\* them with pages, was exported, cleared and imported.
C10_Witness ==
    /\ exported.stage = "imported"
    /\ \E a, b \in items :
          /\ a.item_type = INCIDENT /\ b.item_type = INSTRUCTION
          /\ ItemPages(DB, a.id) # {} \/ ItemPages(DB, b.id) # {}

(***************************************************************************)
(* Properties of creation and import, checked under SpecIntake.            *)
(***************************************************************************)
\* The entries of a snapshot in the order the import handles them.
Entries(snap) == snap.incidents \o snap.instructions

EntryType(snap, k) == IF k <= Len(snap.incidents) THEN INCIDENT ELSE INSTRUCTION

\* The highest Item id in use; 0 when there is none.
TopId(rows) == IF rows = {} THEN 0 ELSE Max(Ids(rows))

\* The pages and the actions that the first n entries submit.
RECURSIVE EntryPages(_, _)
EntryPages(es, n) ==
    IF n = 0 THEN 0 ELSE EntryPages(es, n - 1) + Len(es[n].pages)

RECURSIVE EntryActions(_, _)
EntryActions(es, n) ==
    IF n = 0 THEN 0
    ELSE EntryActions(es, n - 1) + CountActions(ImportCreate(es[n], INCIDENT).pages)

\* C11: a successful import keeps every stored Item with its fields and its
\* page tree, also when an entry carries the id of a stored Item; it adds
\* one Item per entry, under an id no stored Item had, with the entry's
\* title and the type of its list; the returned counts are the lengths of
\* the two lists.
C11_ImportAdditive ==
    [][\A snap \in IntakeBodies :
          (resp'.op = "import" /\ resp'.status = 200 /\ import_data(snap))
          => LET es == Entries(snap)
                 added == items' \ items
             IN  /\ items \subseteq items'
                 /\ \A it \in items : get_item(DB', it.id) = get_item(DB, it.id)
                 /\ Cardinality(added) = Len(es)
                 /\ Ids(added) \cap Ids(items) = {}
                 /\ \A k \in DOMAIN es :
                        \E it \in added :
                            /\ it.id = TopId(items) + k
                            /\ it.title = es[k].title
                            /\ it.item_type = EntryType(snap, k)
                 /\ resp'.body = <<Len(snap.incidents), Len(snap.instructions)>>]_vars

\* C11 witness: an import of one entry that carries id 1 succeeded while
\* Item 1 was stored, and both Items are there.
C11_Witness ==
    /\ resp.op = "import" /\ resp.status = 200 /\ resp.body = <<0, 1>>
    /\ Ids(items) = {1, 2}
    /\ ItemPages(DB, 1) # {}

\* C12: when the import fails at its k-th entry, every Item stored before
\* is still stored, the k-1 entries before it are stored as Items with
\* their pages and actions, and no Item, Page or Action of the k-th or a
\* later entry is stored.
C12_ImportFailureKeepsPrefix ==
    [][\A snap \in IntakeBodies :
          (resp'.op = "import" /\ resp'.status = 500 /\ import_data(snap))
          => LET es == Entries(snap)
                 bad == {j \in DOMAIN es : ~ValidItemCreate(ImportCreate(es[j], INCIDENT))}
                 k == CHOOSE j \in bad : \A i \in bad : j <= i
                 added == items' \ items
             IN  /\ bad # {}
                 /\ items \subseteq items' /\ pages \subseteq pages' /\ actions \subseteq actions'
                 /\ Cardinality(added) = k - 1
                 /\ \A j \in 1..(k - 1) :
                        \E it \in added :
                            /\ it.id = TopId(items) + j
                            /\ it.title = es[j].title
                            /\ it.item_type = EntryType(snap, j)
                 /\ Cardinality(pages' \ pages) = EntryPages(es, k - 1)
                 /\ Cardinality(actions' \ actions) = EntryActions(es, k - 1)]_vars

\* C12 witness: an import failed after it had stored an Item with a page.
C12_Witness ==
    /\ resp.op = "import" /\ resp.status = 500
    /\ \E it \in items : it.title = <<"B">> /\ it.updated_at = now
                          /\ ItemPages(DB, it.id) # {}

\* What C13 holds a creation payload to: the Item title, every page title
\* and every action text within their limits.
Acceptable(p) ==
    /\ ValidTitle(p.title)
    /\ \A i \in DOMAIN p.pages :
          /\ ValidPage(p.pages[i])
          /\ \A j \in DOMAIN p.pages[i].actions : ValidAction(p.pages[i].actions[j])

\* C13: create_item with a payload whose Item title, a page title or an
\* action text is empty or above its limit is answered with a validation
\* error and adds no Item, Page or Action row.
C13_InvalidCreateWritesNothing ==
    [][\A p \in IntakeCreates :
          (resp'.op = "create_item" /\ ~Acceptable(p) /\ create_new_item(p))
          => /\ resp'.status = 422
             /\ UNCHANGED <<items, pages, actions>>]_vars

(***************************************************************************)
(* Properties of the clear and of the unknown ids, checked under SpecClear.*)
(***************************************************************************)
\* C14: a clear without confirm=true is answered 400 and leaves every
\* table as it was: Items, Pages, Actions, Categories, Locations and the
\* associations.
C14_UnconfirmedClearRejected ==
    [][(resp'.op = "clear" /\ clear_all(FALSE))
          => /\ resp'.status = 400
             /\ UNCHANGED <<items, pages, actions, categories, locations,
                            item_locations>>]_vars

\* C14 witness: a clear was answered 400 over a store that holds rows of
\* every table.
C14_Witness ==
    /\ resp.op = "clear" /\ resp.status = 400
    /\ items # {} /\ pages # {} /\ actions # {}
    /\ categories # {} /\ locations # {} /\ item_locations # {}

\* The filters and the windows C15 lists with.
ListFilters == (ItemType \cup {NO_TYPE}) \X ({NULL} \cup CategoryIds) \X ({NULL} \cup LocationIds)

ListWindows == {<<0, MaxItemId>>, <<1, 1>>}

\* C15: after a clear with confirm=true no Item is stored: the listing is
\* empty for every filter, offset and limit, get finds no id, get_by_type
\* and export hold no Item; Items appear again only by a create or import.
C15_ClearLeavesNoItem ==
    [][/\ (resp'.op = "clear" /\ resp'.status # 400)
          => /\ items' = {}
             /\ \A f \in ListFilters, w \in ListWindows :
                    get_items(DB', w[1], w[2], f[1], f[2], f[3]) = {<<>>}
             /\ \A id \in ItemIds : get_item(DB', id) = {}
             /\ \A t \in ItemType : get_items_by_type(DB', t, NULL, NULL) = <<>>
             /\ export_all_items(DB') = {[incidents |-> <<>>, instructions |-> <<>>]}
       /\ (items = {} /\ items' # {}) => resp'.op \in {"create_item", "import"}]_vars

\* C15 witness: a confirmed clear ran over Items with pages and
\* associations, whose rows are still in the tables.
C15_Witness ==
    /\ resp.op = "clear" /\ resp.status = 200
    /\ pages # {} /\ item_locations # {} /\ categories # {}

\* C16: get_item, update_item and delete_item on an id that no stored Item
\* has are answered 404 and leave every table as it was, whatever fields
\* the update carries.
C16_UnknownIdNotFound ==
    [][\A id \in ItemIds \ Ids(items) :
          /\ (resp'.op = "get_item" /\ read_item(id)) => resp'.status = 404
          /\ (resp'.op = "delete_item" /\ delete_existing_item(id)) => resp'.status = 404
          /\ \A p \in ClearUpdates :
                (resp'.op = "update_item" /\ update_existing_item(id, p))
                    => resp'.status = 404
          /\ (resp'.id = id /\ resp'.op \in {"get_item", "update_item", "delete_item"})
                => UNCHANGED <<items, pages, actions, categories, locations,
                               item_locations>>]_vars

\* C16 witness: an update was answered 404 for an id under which pages of
\* a cleared Item are still in the table.
C16_Witness ==
    /\ resp.op = "update_item" /\ resp.status = 404
    /\ resp.id \notin Ids(items)
    /\ ItemPages(DB, resp.id) # {}

(***************************************************************************)
(* Properties of the category references, checked under SpecCategories.    *)
(***************************************************************************)
\* C17: every Item whose category_id identifies a stored Category has the
\* item_type of that Category.
C17_CategoryTypeMatches ==
    \A it \in items, c \in categories :
        c.id = it.category_id => c.item_type = it.item_type

(***************************************************************************)
(* Properties of the location sets, checked under SpecLocations.           *)
(***************************************************************************)
\* C18: a successful update_item whose payload carries location_ids leaves
\* the Item with exactly the submitted ids that identify a stored Location:
\* a Location it had before remains only if it was submitted, and the empty
\* list leaves it with none.
C18_UpdateReplacesLocations ==
    [][\A id \in Ids(items), p \in LocUpdates :
          (resp'.op = "update_item" /\ resp'.id = id /\ update_existing_item(id, p))
          => /\ resp'.status = 200
             /\ ItemLocations(DB', id) = p.location_ids \cap Ids(locations)
             /\ \A l \in ItemLocations(DB, id) \ p.location_ids :
                    l \notin ItemLocations(DB', id)
             /\ (p.location_ids = {}) => ItemLocations(DB', id) = {}
             /\ locations' = locations]_vars

\* C18 witness: an update carrying location_ids was applied to an Item that
\* now has one of the two stored Locations.
C18_Witness ==
    /\ resp.op = "update_item" /\ resp.status = 200
    /\ resp.applied = {"location_ids"}
    /\ Cardinality(locations) = 2
    /\ Cardinality(ItemLocations(DB, resp.id)) = 1

(***************************************************************************)
(* Properties of creations with unknown location ids, checked under        *)
(* SpecUnknownLocations.                                                   *)
(***************************************************************************)
\* C19: a create_item whose location_ids hold an id of no stored Location is
\* answered 201, the created Item has exactly the submitted ids that
\* identify a stored Location, no Location is created and every association
\* row added is one of the created Item to a stored, submitted Location.
C19_CreateDropsUnknownLocations ==
    [][\A p \in UnknownLocCreates :
          (resp'.op = "create_item" /\ create_new_item(p))
          => /\ p.location_ids \ Ids(locations) # {}
             /\ resp'.status = 201
             /\ resp'.id \in Ids(items') \ Ids(items)
             /\ ItemLocations(DB', resp'.id) = p.location_ids \cap Ids(locations)
             /\ locations' = locations
             /\ \A r \in item_locations' \ item_locations :
                    /\ r[1] = resp'.id
                    /\ r[2] \in p.location_ids \cap Ids(locations)]_vars

\* C19 witness: an Item was created under SpecUnknownLocations, where every
\* creation submits UnknownLocationId, and has one of two stored Locations.
C19_Witness ==
    /\ resp.op = "create_item" /\ resp.status = 201
    /\ Cardinality(locations) = 2
    /\ Cardinality(ItemLocations(DB, resp.id)) = 1
    /\ \A l \in locations : l.id # UnknownLocationId

(***************************************************************************)
(* Properties of the listing, checked under SpecList.                      *)
(***************************************************************************)
\* The Items that pass the filters of a listing.
Matching(item_type, category_id, location_id) ==
    {it \in items :
        /\ item_type = NO_TYPE \/ it.item_type = item_type
        /\ category_id = NULL \/ it.category_id = category_id
        /\ location_id = NULL
              \/ \E l \in locations : l.id = location_id /\ <<it.id, l.id>> \in item_locations}

\* C20: the body of a listing with a valid type filter holds, of the Items
\* that pass every supplied filter, those at positions offset .. offset +
\* limit - 1 of the sequence ordered by updated_at, newest first: at most
\* limit Items, no Item twice, none that fails a filter, each at a rank
\* its updated_at allows, and the empty sequence when nothing matches.
C20_ListingIsWindowOfNewestFirst ==
    (resp.op = "get_items" /\ resp.status = 200)
    => LET skip == resp.query[1]
           limit == resp.query[2]
           m == Matching(resp.query[3], resp.query[4], resp.query[5])
           rest == IF Cardinality(m) > skip THEN Cardinality(m) - skip ELSE 0
           body == resp.body
       IN  /\ Len(body) <= limit
           /\ Len(body) = IF rest < limit THEN rest ELSE limit
           /\ \A i, j \in DOMAIN body : i # j => body[i].id # body[j].id
           /\ \A i \in DOMAIN body : body[i] \in m
           /\ \A i, j \in DOMAIN body : i < j => body[i].updated_at >= body[j].updated_at
           /\ \A i \in DOMAIN body :
                  /\ Cardinality({it \in m : it.updated_at > body[i].updated_at}) <= skip + i - 1
                  /\ Cardinality({it \in m : it.updated_at >= body[i].updated_at}) >= skip + i
           /\ (m = {}) => body = <<>>

\* C20 witness: a listing by type at offset 1 returned the older of two
\* matching Items.
C20_Witness ==
    /\ resp.op = "get_items" /\ resp.status = 200
    /\ resp.query[1] = 1 /\ resp.query[3] = INCIDENT
    /\ Len(resp.body) = 1
    /\ \E it \in items : it.item_type = INCIDENT /\ it.updated_at > resp.body[1].updated_at

(***************************************************************************)
(* Properties of the listings by type, checked under SpecTyped.            *)
(***************************************************************************)
\* The ids of the entries of a listing.
BodyIds(body) == {body[i].id : i \in DOMAIN body}

\* The page dicts an Item's relations can load: titles and action texts in
\* Page.order and Action.order.
PageDicts(id) ==
    {[i \in DOMAIN t |-> [title |-> t[i].title, actions |-> t[i].actions]] :
        t \in PageTrees(DB, id)}

\* C21: a listing by type holds every stored Item of the type that passes
\* the supplied category and location filters and no other Item, each once,
\* ascending by id, each with its pages and actions in their stored order;
\* the unfiltered listings of the two types partition the stored Items.
C21_TypedListingComplete ==
    /\ resp.op \in {"get_incidents", "get_instructions"}
       => LET body == resp.body
              want == {it \in items :
                         /\ it.item_type = resp.query[1]
                         /\ resp.query[2] = NULL \/ it.category_id = resp.query[2]
                         /\ resp.query[3] = NULL
                              \/ \E l \in locations :
                                     l.id = resp.query[3] /\ <<it.id, l.id>> \in item_locations}
          IN  /\ resp.query[1] = (IF resp.op = "get_incidents" THEN INCIDENT ELSE INSTRUCTION)
              /\ BodyIds(body) = Ids(want)
              /\ Len(body) = Cardinality(want)
              /\ \A i, j \in DOMAIN body : i < j => body[i].id < body[j].id
              /\ \A i \in DOMAIN body :
                     /\ body[i].title = Row(items, body[i].id).title
                     /\ body[i].pages \in PageDicts(body[i].id)
    /\ LET a == get_items_by_type(DB, INCIDENT, NULL, NULL)
           b == get_items_by_type(DB, INSTRUCTION, NULL, NULL)
       IN  /\ {a[i] : i \in DOMAIN a} \cup {b[i] : i \in DOMAIN b} = items
           /\ {a[i] : i \in DOMAIN a} \cap {b[i] : i \in DOMAIN b} = {}

\* C21 witness: the incidents were listed, the listing holds an Item with
\* a page, and an instruction is stored.
C21_Witness ==
    /\ resp.op = "get_incidents"
    /\ Len(resp.body) = 1 /\ Len(resp.body[1].pages) >= 1
    /\ \E it \in items : it.item_type = INSTRUCTION

(***************************************************************************)
(* Properties of the uploads, checked under SpecUpload and SpecImages.     *)
(***************************************************************************)
\* C22: an upload whose content is larger than MAX_UPLOAD_SIZE or whose
\* file name has an extension outside ALLOWED_EXTENSIONS is answered 400
\* before process_image is called and writes no file; a file is written
\* only for an upload within the size whose extension is allowed.
C22_RejectedUploadWritesNothing ==
    [][resp'.op = "upload"
          => LET q == resp'.query
                 bad == \/ q.size > MAX_UPLOAD_SIZE
                        \/ Extension(q.filename) \notin ALLOWED_EXTENSIONS
             IN  /\ bad => /\ resp'.status = 400
                           /\ ~resp'.body.processed
                           /\ uploads' = uploads
                 /\ uploads' # uploads => ~bad]_vars

\* C28: for a decoded image of width w >= 1 and height h >= 1 the file
\* written is at most MAX_WIDTH wide and MAX_HEIGHT high, with both
\* dimensions at least 1; an image within both bounds keeps its dimensions,
\* another one is scaled down, one dimension within a pixel of what the
\* aspect ratio gives for the other.
C28_ImageFitsBounds ==
    (resp.op = "upload" /\ resp.status = 200)
    => LET w == resp.query.image.width
           h == resp.query.image.height
           x == resp.body.image.width
           y == resp.body.image.height
       IN  /\ x >= 1 /\ y >= 1
           /\ x <= MAX_WIDTH /\ y <= MAX_HEIGHT
           /\ (w <= MAX_WIDTH /\ h <= MAX_HEIGHT) => (x = w /\ y = h)
           /\ (w > MAX_WIDTH \/ h > MAX_HEIGHT)
                 => /\ x <= w /\ y <= h
                    /\ x = MAX_WIDTH \/ y = MAX_HEIGHT
                    /\ Abs(x * h - y * w) < h \/ Abs(x * h - y * w) < w

\* C28 witness: a 10000 x 10000 image was uploaded and written 600 x 600.
C28_Witness ==
    /\ resp.op = "upload" /\ resp.status = 200
    /\ resp.query.image = [width |-> 10000, height |-> 10000]
    /\ resp.body.image = [width |-> 600, height |-> 600]
    /\ uploads # {}

(***************************************************************************)
(* Properties of the order values, checked under Spec.                     *)
(***************************************************************************)
\* The order values of rows are 0 .. n-1, each carried by one row.
Contiguous(rows) ==
    /\ {r.order : r \in rows} = 0..(Cardinality(rows) - 1)
    /\ \A r, q \in rows : r.order = q.order => r = q

\* C23: in every state reached by creates, updates, deletes, imports and
\* clears run one at a time, the pages of each Item carry the order values
\* 0 .. n-1, each once, and so do the actions of each of its pages.
C23_OrdersContiguous ==
    \A it \in items :
        /\ Contiguous(ItemPages(DB, it.id))
        /\ \A p \in ItemPages(DB, it.id) : Contiguous(PageActions(DB, p.id))

(***************************************************************************)
(* Properties of updated_at, checked under SpecUpdate.                     *)
(***************************************************************************)
\* C24: every successful update_item that changes the Item, its pages or
\* its location set leaves the Item with an updated_at later than before.
C24_UpdateRefreshesUpdatedAt ==
    [][\A id \in Ids(items) :
          (/\ resp'.op = "update_item" /\ resp'.status = 200 /\ resp'.id = id
           /\ \/ items' # items
              \/ ItemPages(DB', id) # ItemPages(DB, id)
              \/ ItemLocations(DB', id) # ItemLocations(DB, id))
          => Row(items', id).updated_at > Row(items, id).updated_at]_vars

(***************************************************************************)
(* Properties of concurrent requests, checked under SpecRace and SpecRead. *)
(***************************************************************************)
\* The titles and action texts of a loaded page tree.
TreeContent(t) == [i \in DOMAIN t |-> [title |-> t[i].title, actions |-> t[i].actions]]

\* The worker is in an update of Item id that carries pages.
Replacing(w, id) ==
    /\ sessions[w].pc # "idle"
    /\ sessions[w].id = id
    /\ ~IsNone(sessions[w].p, "pages")

\* C25: when two updates of one Item that both carry pages have both
\* committed, the Item has the page tree one of them submitted, with the
\* order values 0 .. n-1, each once.
C25_LastWriterWins ==
    \A id \in Ids(items) :
        (/\ Replacing("w1", id) /\ sessions["w1"].pc = "committed"
         /\ Replacing("w2", id) /\ sessions["w2"].pc = "committed")
        => /\ Contiguous(ItemPages(DB, id))
           /\ \A t \in PageTrees(DB, id) :
                  TreeContent(t) \in {sessions["w1"].p.pages, sessions["w2"].p.pages}

\* A get_item is answered 200 while the sessions stay as they are.
ReadStep == resp'.op = "get_item" /\ resp'.status = 200 /\ sessions' = sessions

\* C26 as claimed: a get_item answered while an update_item of the Item
\* has flushed the removal of the old pages and not committed returns a
\* page tree that is neither the one before the update nor the submitted
\* one.
C26_MidUpdateReadIsTransient ==
    [][ReadStep
          => \A w \in Workers :
                (Replacing(w, resp'.id) /\ sessions[w].pc = "flushed")
                => /\ resp'.body.pages # sessions[w].tree
                   /\ TreeContent(resp'.body.pages) # sessions[w].p.pages]_vars

\* C26: a get_item answered while an update_item of the Item replaces the
\* pages returns the complete page tree from before the update until the
\* update commits, and the complete submitted tree from then on.
C26_ReadSeesCommittedTree ==
    [][ReadStep
          => \A w \in Workers :
                Replacing(w, resp'.id)
                => IF sessions[w].pc = "committed"
                   THEN TreeContent(resp'.body.pages) = sessions[w].p.pages
                   ELSE resp'.body.pages = sessions[w].tree]_vars

\* C26 witness: an Item was read with its old page while the update has
\* flushed the removal of that page and holds the lock.
C26_Witness ==
    /\ resp.op = "get_item" /\ resp.status = 200
    /\ Replacing("w1", resp.id) /\ sessions["w1"].pc = "flushed"
    /\ resp.body.pages = sessions["w1"].tree
    /\ resp.body.pages # <<>>
    /\ ItemPages(DB, resp.id) # {}
    /\ ItemPages(DirtyView, resp.id) = {}

(***************************************************************************)
(* Properties of the category responses, checked under SpecCounts, and of  *)
(* the category references, checked under SpecCategories.                  *)
(***************************************************************************)
\* C27: the items_count of every Category in a list, create or update
\* response is the number of stored Items whose category_id is the id of
\* that Category.
C27_ItemsCountIsCurrent ==
    (resp.op \in {"list_categories", "create_category", "update_category"}
     /\ resp.status \in {200, 201})
    => \A i \in DOMAIN resp.body :
           resp.body[i].items_count
               = Cardinality({it \in items : it.category_id = resp.body[i].id})

\* C29: the category_id of every Item is null or the id of a stored
\* Category.
C29_CategoryReferencesResolve ==
    \A it \in items : it.category_id = NULL \/ it.category_id \in Ids(categories)

====
